---- MODULE Spec2Model ----
(***************************************************************************)
(* The hand pipeline of src/unnamed/part_000 (class HandPipeline): the     *)
(* region-of-interest tracker, the per-frame procedure estimateHand and    *)
(* the box and coordinate geometry it uses.                                *)
(*                                                                         *)
(* Numbers.  A JavaScript number is modelled as a fixed-point integer: a   *)
(* coordinate is a whole number of resolution units, and a division rounds *)
(* down to a unit.  Fractional constants are kept in hundredths (0.8 is    *)
(* 80, 1.65 is 165).  An angle is a whole number of quarter turns (1 is    *)
(* pi/2), for which sine and cosine are exact; the inputs are chosen so    *)
(* that every alignment angle is a quarter turn.                           *)
(***************************************************************************)
EXTENDS Integers, Sequences, FiniteSets, TLC

----------------------------------------------------------------------------
(* Module constants, part_000 lines 82-89, and the fixed constructor       *)
(* arguments, lines 101-103.                                               *)

UPDATE_REGION_OF_INTEREST_IOU_THRESHOLD == 80
PALM_BOX_SHIFT_VECTOR == <<0, -40>>
PALM_BOX_ENLARGE_FACTOR == 300
HAND_BOX_SHIFT_VECTOR == <<0, -10>>
HAND_BOX_ENLARGE_FACTOR == 165
PALM_LANDMARK_IDS == <<0, 5, 9, 13, 17, 1, 2>>
PALM_LANDMARKS_INDEX_OF_PALM_BASE == 0
PALM_LANDMARKS_INDEX_OF_MIDDLE_FINGER_BASE == 2

maxHandsNumber == 1
meshWidth == 256
meshHeight == 256

----------------------------------------------------------------------------
(* Math.min, Math.max, Math.abs.                                           *)

Min(a, b) == IF a <= b THEN a ELSE b

Max(a, b) == IF a >= b THEN a ELSE b

Abs(a) == IF a < 0 THEN -a ELSE a

SeqMin(s) == CHOOSE m \in {s[i] : i \in 1..Len(s)} : \A i \in 1..Len(s) : m <= s[i]

SeqMax(s) == CHOOSE m \in {s[i] : i \in 1..Len(s)} : \A i \in 1..Len(s) : m >= s[i]

----------------------------------------------------------------------------
(* ./box (bounding): the box geometry, spec section 4.1.  A box is a       *)
(* record [startPoint, endPoint, palmLandmarks]; palmLandmarks is <<>>     *)
(* where the JavaScript object has none.                                   *)

NoLandmarks == <<>>

Box(sx, sy, ex, ey) ==
    [startPoint |-> <<sx, sy>>, endPoint |-> <<ex, ey>>, palmLandmarks |-> NoLandmarks]

getBoxSize(box) ==
    << Abs(box.endPoint[1] - box.startPoint[1]),
       Abs(box.endPoint[2] - box.startPoint[2]) >>

getBoxCenter(box) ==
    << box.startPoint[1] + (box.endPoint[1] - box.startPoint[1]) \div 2,
       box.startPoint[2] + (box.endPoint[2] - box.startPoint[2]) \div 2 >>

\* translate both corners by the vector scaled by the box's width and height
shiftBox(box, shiftFactor) ==
    LET boxSize == << box.endPoint[1] - box.startPoint[1],
                      box.endPoint[2] - box.startPoint[2] >>
        shiftVector == << (boxSize[1] * shiftFactor[1]) \div 100,
                          (boxSize[2] * shiftFactor[2]) \div 100 >>
    IN  [box EXCEPT !.startPoint = << box.startPoint[1] + shiftVector[1],
                                      box.startPoint[2] + shiftVector[2] >>,
                    !.endPoint   = << box.endPoint[1] + shiftVector[1],
                                      box.endPoint[2] + shiftVector[2] >>]

\* expand the shorter dimension so that width = height, about the centre
squarifyBox(box) ==
    LET centers == getBoxCenter(box)
        size == getBoxSize(box)
        maxEdge == Max(size[1], size[2])
        halfSize == maxEdge \div 2
    IN  [box EXCEPT !.startPoint = << centers[1] - halfSize, centers[2] - halfSize >>,
                    !.endPoint   = << centers[1] + halfSize, centers[2] + halfSize >>]

\* scale the box's dimensions by factor (hundredths) about its centre
enlargeBox(box, factor) ==
    LET center == getBoxCenter(box)
        size == getBoxSize(box)
        newHalfSize == << (factor * size[1]) \div 200, (factor * size[2]) \div 200 >>
    IN  [box EXCEPT !.startPoint = << center[1] - newHalfSize[1], center[2] - newHalfSize[2] >>,
                    !.endPoint   = << center[1] + newHalfSize[1], center[2] + newHalfSize[2] >>]

----------------------------------------------------------------------------
(* ./util: the rotation mathematics, spec section 4.2, on quarter turns.   *)

Cos(q) == CASE q % 4 = 0 -> 1 [] q % 4 = 1 -> 0 [] q % 4 = 2 -> -1 [] q % 4 = 3 -> 0

Sin(q) == CASE q % 4 = 0 -> 0 [] q % 4 = 1 -> 1 [] q % 4 = 2 -> 0 [] q % 4 = 3 -> -1

\* pi/2 - atan2(-(B.y - A.y), B.x - A.x), for A and B on one axis-parallel
\* line (atan2(0, 0) is 0); no other pair is in the model's inputs
computeRotation(point1, point2) ==
    LET dy == -(point2[2] - point1[2])
        dx == point2[1] - point1[1]
    IN  CASE dx = 0 /\ dy > 0 -> 0
          [] dx > 0 /\ dy = 0 -> 1
          [] dx = 0 /\ dy = 0 -> 1
          [] dx < 0 /\ dy = 0 -> -1
          [] dx = 0 /\ dy < 0 -> 2

dot(v1, v2) ==
    LET sum[i \in 0..Len(v1)] == IF i = 0 THEN 0 ELSE sum[i - 1] + v1[i] * v2[i]
    IN  sum[Len(v1)]

\* the affine matrix (two rows of three) rotating by rotation about center
buildRotationMatrix(rotation, center) ==
    LET cosA == Cos(rotation)
        sinA == Sin(rotation)
    IN  << << cosA, -sinA, center[1] - cosA * center[1] + sinA * center[2] >>,
           << sinA,  cosA, center[2] - sinA * center[1] - cosA * center[2] >> >>

invertTransformMatrix(matrix) ==
    LET rotationComponent == << << matrix[1][1], matrix[2][1] >>,
                                << matrix[1][2], matrix[2][2] >> >>
        translationComponent == << matrix[1][3], matrix[2][3] >>
        invertedTranslation == << -dot(rotationComponent[1], translationComponent),
                                  -dot(rotationComponent[2], translationComponent) >>
    IN  << rotationComponent[1] \o << invertedTranslation[1] >>,
           rotationComponent[2] \o << invertedTranslation[2] >> >>

rotatePoint(homogeneousCoordinate, rotationMatrix) ==
    << dot(homogeneousCoordinate, rotationMatrix[1]),
       dot(homogeneousCoordinate, rotationMatrix[2]) >>

----------------------------------------------------------------------------
(* HandPipeline: the pure methods.                                         *)

calculateLandmarksBoundingBox(landmarks) ==
    LET xs == [i \in 1..Len(landmarks) |-> landmarks[i][1]]
        ys == [i \in 1..Len(landmarks) |-> landmarks[i][2]]
    IN  Box(SeqMin(xs), SeqMin(ys), SeqMax(xs), SeqMax(ys))

\* a slip: the hand constants are used for the palm box
getBoxForPalmLandmarks_HandConstants(palmLandmarks, rotationMatrix) ==
    LET rotatedPalmLandmarks ==
            [i \in 1..Len(palmLandmarks) |->
                rotatePoint(palmLandmarks[i] \o <<1>>, rotationMatrix)]
        boxAroundPalm == calculateLandmarksBoundingBox(rotatedPalmLandmarks)
    IN  enlargeBox(squarifyBox(shiftBox(boxAroundPalm, HAND_BOX_SHIFT_VECTOR)),
                   HAND_BOX_ENLARGE_FACTOR)

getBoxForPalmLandmarks(palmLandmarks, rotationMatrix) ==
    LET rotatedPalmLandmarks ==
            [i \in 1..Len(palmLandmarks) |->
                rotatePoint(palmLandmarks[i] \o <<1>>, rotationMatrix)]
        boxAroundPalm == calculateLandmarksBoundingBox(rotatedPalmLandmarks)
    IN  enlargeBox(squarifyBox(shiftBox(boxAroundPalm, PALM_BOX_SHIFT_VECTOR)),
                   PALM_BOX_ENLARGE_FACTOR)

\* a slip: the palm constants are used for the hand box
getBoxForHandLandmarks_PalmConstants(landmarks) ==
    LET boundingBox == calculateLandmarksBoundingBox(landmarks)
        boxAroundHand ==
            enlargeBox(squarifyBox(shiftBox(boundingBox, PALM_BOX_SHIFT_VECTOR)),
                       PALM_BOX_ENLARGE_FACTOR)
        palmLandmarks ==
            [i \in 1..Len(PALM_LANDMARK_IDS) |->
                SubSeq(landmarks[PALM_LANDMARK_IDS[i] + 1], 1, 2)]
    IN  [boxAroundHand EXCEPT !.palmLandmarks = palmLandmarks]

getBoxForHandLandmarks(landmarks) ==
    LET boundingBox == calculateLandmarksBoundingBox(landmarks)
        boxAroundHand ==
            enlargeBox(squarifyBox(shiftBox(boundingBox, HAND_BOX_SHIFT_VECTOR)),
                       HAND_BOX_ENLARGE_FACTOR)
        palmLandmarks ==
            [i \in 1..Len(PALM_LANDMARK_IDS) |->
                SubSeq(landmarks[PALM_LANDMARK_IDS[i] + 1], 1, 2)]
    IN  [boxAroundHand EXCEPT !.palmLandmarks = palmLandmarks]

\* a slip: the keypoints are not centred on the middle of the model input
transformRawCoords_NotCentred(rawCoords, box, angle, rotationMatrix) ==
    LET boxSize == getBoxSize(box)
        coordsScaled ==
            [i \in 1..Len(rawCoords) |->
                << (boxSize[1] * rawCoords[i][1]) \div meshWidth,
                   (boxSize[2] * rawCoords[i][2]) \div meshHeight,
                   rawCoords[i][3] >>]
        coordsRotationMatrix == buildRotationMatrix(angle, <<0, 0>>)
        coordsRotated ==
            [i \in 1..Len(coordsScaled) |->
                rotatePoint(coordsScaled[i], coordsRotationMatrix) \o << coordsScaled[i][3] >>]
        inverseRotationMatrix == invertTransformMatrix(rotationMatrix)
        boxCenter == getBoxCenter(box) \o <<1>>
        originalBoxCenter == << dot(boxCenter, inverseRotationMatrix[1]),
                                dot(boxCenter, inverseRotationMatrix[2]) >>
    IN  [i \in 1..Len(coordsRotated) |->
            << coordsRotated[i][1] + originalBoxCenter[1],
               coordsRotated[i][2] + originalBoxCenter[2],
               coordsRotated[i][3] >>]

\* a slip: the depth is scaled with the point (coord[2] left out of line 140)
transformRawCoords_DepthScaled(rawCoords, box, angle, rotationMatrix) ==
    LET boxSize == getBoxSize(box)
        coordsScaled ==
            [i \in 1..Len(rawCoords) |->
                << (boxSize[1] * (rawCoords[i][1] - meshWidth \div 2)) \div meshWidth,
                   (boxSize[2] * (rawCoords[i][2] - meshHeight \div 2)) \div meshHeight,
                   (boxSize[1] * rawCoords[i][3]) \div meshWidth >>]
        coordsRotationMatrix == buildRotationMatrix(angle, <<0, 0>>)
        coordsRotated ==
            [i \in 1..Len(coordsScaled) |->
                rotatePoint(coordsScaled[i], coordsRotationMatrix) \o << coordsScaled[i][3] >>]
        inverseRotationMatrix == invertTransformMatrix(rotationMatrix)
        boxCenter == getBoxCenter(box) \o <<1>>
        originalBoxCenter == << dot(boxCenter, inverseRotationMatrix[1]),
                                dot(boxCenter, inverseRotationMatrix[2]) >>
    IN  [i \in 1..Len(coordsRotated) |->
            << coordsRotated[i][1] + originalBoxCenter[1],
               coordsRotated[i][2] + originalBoxCenter[2],
               coordsRotated[i][3] >>]

\* scaleFactor * (coord - mesh/2) is computed as one product and one
\* division, so that the fixed-point value is rounded once
transformRawCoords(rawCoords, box, angle, rotationMatrix) ==
    LET boxSize == getBoxSize(box)
        coordsScaled ==
            [i \in 1..Len(rawCoords) |->
                << (boxSize[1] * (rawCoords[i][1] - meshWidth \div 2)) \div meshWidth,
                   (boxSize[2] * (rawCoords[i][2] - meshHeight \div 2)) \div meshHeight,
                   rawCoords[i][3] >>]
        coordsRotationMatrix == buildRotationMatrix(angle, <<0, 0>>)
        coordsRotated ==
            [i \in 1..Len(coordsScaled) |->
                rotatePoint(coordsScaled[i], coordsRotationMatrix) \o << coordsScaled[i][3] >>]
        inverseRotationMatrix == invertTransformMatrix(rotationMatrix)
        boxCenter == getBoxCenter(box) \o <<1>>
        originalBoxCenter == << dot(boxCenter, inverseRotationMatrix[1]),
                                dot(boxCenter, inverseRotationMatrix[2]) >>
    IN  [i \in 1..Len(coordsRotated) |->
            << coordsRotated[i][1] + originalBoxCenter[1],
               coordsRotated[i][2] + originalBoxCenter[2],
               coordsRotated[i][3] >>]

----------------------------------------------------------------------------
(* HandPipeline: the region tracker.                                       *)

\* lines 246-259: iou, kept as the fraction num / den that the code divides
\* out; 0 when there is no previous box
iouOfRegions(box, previousBox, hasPrevious) ==
    IF ~hasPrevious THEN [num |-> 0, den |-> 1]
    ELSE
    LET boxStartX == box.startPoint[1]
        boxStartY == box.startPoint[2]
        boxEndX == box.endPoint[1]
        boxEndY == box.endPoint[2]
        previousBoxStartX == previousBox.startPoint[1]
        previousBoxStartY == previousBox.startPoint[2]
        previousBoxEndX == previousBox.endPoint[1]
        previousBoxEndY == previousBox.endPoint[2]
        xStartMax == Max(boxStartX, previousBoxStartX)
        yStartMax == Max(boxStartY, previousBoxStartY)
        xEndMin == Min(boxEndX, previousBoxEndX)
        yEndMin == Min(boxEndY, previousBoxEndY)
        intersection == (xEndMin - xStartMax) * (yEndMin - yStartMax)
        boxArea == (boxEndX - boxStartX) * (boxEndY - boxStartY)
        previousBoxArea == (previousBoxEndX - previousBoxStartX) * (previousBoxEndY - boxStartY)
    IN  [num |-> intersection, den |-> boxArea + previousBoxArea - intersection]

\* the comparison  num / den > hundredths / 100  of IEEE doubles: a zero
\* denominator gives +Infinity, -Infinity or NaN
FractionGreater(f, hundredths) ==
    CASE f.den > 0 -> 100 * f.num > hundredths * f.den
      [] f.den < 0 -> 100 * f.num < hundredths * f.den
      [] f.den = 0 -> f.num > 0

\* a slip: the forced update pushes the box and keeps the old region
updateRegions_ForcedPushes(rois, box, forceUpdate) ==
    IF forceUpdate THEN rois \o << box >>
    ELSE
    LET hasPrevious == Len(rois) >= 1
        previousBox == IF hasPrevious THEN rois[1] ELSE box
        iou == iouOfRegions(box, previousBox, hasPrevious)
        kept == IF FractionGreater(iou, UPDATE_REGION_OF_INTEREST_IOU_THRESHOLD)
                THEN previousBox ELSE box
    IN  IF Len(rois) = 0 THEN << kept >> ELSE [rois EXCEPT ![1] = kept]

\* a slip: the tracking update pushes the box it keeps
updateRegions_TrackedPushes(rois, box, forceUpdate) ==
    IF forceUpdate THEN << box >>
    ELSE
    LET hasPrevious == Len(rois) >= 1
        previousBox == IF hasPrevious THEN rois[1] ELSE box
        iou == iouOfRegions(box, previousBox, hasPrevious)
        kept == IF FractionGreater(iou, UPDATE_REGION_OF_INTEREST_IOU_THRESHOLD)
                THEN previousBox ELSE box
    IN  rois \o << kept >>

\* a slip: the tracking update stores the new box whatever the iou
updateRegions_AlwaysReplaces(rois, box, forceUpdate) ==
    << box >>

\* lines 241-263; the result is the new this.regionsOfInterest
updateRegionsOfInterest(rois, box, forceUpdate) ==
    IF forceUpdate THEN << box >>
    ELSE
    LET hasPrevious == Len(rois) >= 1
        previousBox == IF hasPrevious THEN rois[1] ELSE box
        iou == iouOfRegions(box, previousBox, hasPrevious)
        kept == IF FractionGreater(iou, UPDATE_REGION_OF_INTEREST_IOU_THRESHOLD)
                THEN previousBox ELSE box
    IN  IF Len(rois) = 0 THEN << kept >> ELSE [rois EXCEPT ![1] = kept]

\* a slip: the ceiling on the runs without the detector is left out
shouldUpdate_IgnoresCeiling(rois, runs, maxChecks) ==
    Len(rois) # maxHandsNumber

\* a slip: the ceiling is compared with > for >=
shouldUpdate_StrictCeiling(rois, runs, maxChecks) ==
    Len(rois) # maxHandsNumber \/ runs > maxChecks

\* lines 265-268
shouldUpdateRegionsOfInterest(rois, runs, maxChecks) ==
    LET roisCount == Len(rois)
    IN  roisCount # maxHandsNumber \/ runs >= maxChecks

----------------------------------------------------------------------------
(* The inputs of the model: what the two external models return, and the   *)
(* configurations a caller passes.                                         *)

\* the largest maxContinuousChecks a pipeline is constructed with
MaxChecks == 2

\* the offsets of the seven palm landmarks from the palm centre, in
\* quarters of the palm box, for an upright hand: the palm base below the
\* centre, the middle-finger base above it
PalmTemplate ==
    << <<0, 2>>, <<-1, -2>>, <<0, -2>>, <<1, -2>>, <<2, -1>>, <<-2, 1>>, <<-2, 0>> >>

\* the offsets of the 21 hand landmarks, for an upright hand
HandTemplate ==
    << <<0, 2>>,  <<-1, 2>>,  <<-2, 1>>,  <<-2, 0>>,  <<-2, -1>>,
       <<-1, 0>>, <<-1, -1>>, <<-1, -2>>, <<-1, -2>>,
       <<0, 0>>,  <<0, -1>>,  <<0, -2>>,  <<0, -2>>,
       <<1, 0>>,  <<1, -1>>,  <<1, -2>>,  <<1, -2>>,
       <<2, 0>>,  <<2, -1>>,  <<2, -1>>,  <<2, -2>> >>

\* an offset turned by q quarter turns
Turned(offset, q) ==
    << Cos(q) * offset[1] - Sin(q) * offset[2], Sin(q) * offset[1] + Cos(q) * offset[2] >>

\* a palm box the bounding-box detector may return: a square of half-side
\* 2 * unit about (cx, cy), its palm landmarks turned by q quarter turns
PalmBox(cx, cy, unit, q) ==
    [startPoint |-> << cx - 2 * unit, cy - 2 * unit >>,
     endPoint |-> << cx + 2 * unit, cy + 2 * unit >>,
     palmLandmarks |->
        [i \in 1..Len(PalmTemplate) |->
            << cx + unit * Turned(PalmTemplate[i], q)[1],
               cy + unit * Turned(PalmTemplate[i], q)[2] >>]]

\* 21 keypoints the landmark model may return, in the coordinates of its
\* input; the third component is the depth
RawHand(cx, cy, unit, q) ==
    [i \in 1..Len(HandTemplate) |->
        << cx + unit * Turned(HandTemplate[i], q)[1],
           cy + unit * Turned(HandTemplate[i], q)[2],
           i - 11 >>]

DetectorBoxes ==
    { PalmBox(300, 300, 25, 0), PalmBox(340, 280, 30, 1), PalmBox(500, 420, 20, 2) }

\* the last one is a closed hand low in the crop: the box around its
\* keypoints is about the size and place of the detected palm box
RawCoordSets ==
    { RawHand(128, 128, 38, 0), RawHand(128, 116, 38, 0),
      RawHand(150, 128, 20, 1), RawHand(128, 167, 13, 0) }

\* confidences of the landmark model and thresholds of a caller, hundredths
FlagValues == {40, 90}

MinConfidences == {40, 80}

\* thresholds a pipeline is constructed with: one below and one above every
\* confidence and every threshold of a caller
DetectionConfidences == {30, 95}

\* image.shape of the frames: batch, height, width, channels
ImageShape == <<1, 480, 640, 3>>

----------------------------------------------------------------------------
(* The state.                                                              *)

VARIABLES
    regionsOfInterest,        \* this.regionsOfInterest
    runsWithoutHandDetector,  \* this.runsWithoutHandDetector
    maxContinuousChecks,      \* this.maxContinuousChecks
    detectionConfidence,      \* this.detectionConfidence
    pc,          \* where the running estimateHand call is: "idle" (no call
                 \* runs), "crop" (line 174), "predict" (line 188),
                 \* "decide" (line 205), "threw" (a TypeError at line 175)
    awaiting,    \* the calls suspended at the await of line 162
    call,        \* the locals of the call that runs, or ran last
    live,        \* the transient tensors created and not yet disposed
    result,      \* what the last call returned
    sinceForced  \* history: the frames that skipped the detector since the
                 \* last forced update

vars == << regionsOfInterest, runsWithoutHandDetector, maxContinuousChecks,
           detectionConfidence, pc, awaiting, call, live, result, sinceForced >>

NoBox == Box(0, 0, 0, 0)

NoMatrix == << <<1, 0, 0>>, <<0, 1, 0>> >>

NoFraction == [num |-> 0, den |-> 1]

\* the locals of a call at its first statement
NewCall(useFreshBox, minConfidence) ==
    [useFreshBox |-> useFreshBox, minConfidence |-> minConfidence,
     imageDisposed |-> FALSE, detectorCalls |-> 0, meshCalls |-> 0,
     boundingBoxPrediction |-> NoBox, roisBefore |-> <<>>,
     currentBox |-> NoBox, angle |-> 0, palmCenterNormalized |-> <<>>,
     rotateAngle |-> 0, rotationMatrix |-> NoMatrix, box |-> NoBox,
     flagValue |-> 0, rawCoords |-> <<>>, coords |-> <<>>,
     nextBoundingBox |-> NoBox, iou |-> NoFraction]

\* the three kinds of value of `result': nothing returned yet, null, a hand
NoResult ==
    [kind |-> "none", landmarks |-> <<>>, confidence |-> 0,
     box |-> [topLeft |-> <<0, 0>>, bottomRight |-> <<0, 0>>]]

NullResult == [NoResult EXCEPT !.kind = "null"]

Create(tensors, t) == tensors \cup {t}

Dispose(tensors, t) == tensors \ {t}

\* the tensors of lines 178-187: rotatedImage, croppedInput and handImage
\* are created, croppedInput and rotatedImage disposed
CropTensors(tensors) ==
    Dispose(Dispose(Create(Create(Create(tensors,
        "rotatedImage"), "croppedInput"), "handImage"), "croppedInput"), "rotatedImage")

\* lines 196-204: the prediction (flag, keypoints) is created, handImage
\* and flag are disposed
PredictTensors(tensors) ==
    Dispose(Dispose(Create(Create(tensors, "flag"), "keypoints"), "handImage"), "flag")

\* a slip: keypoints is not disposed on the rejection path
RejectTensors_Leak(tensors) == tensors

\* line 206
RejectTensors(tensors) == Dispose(tensors, "keypoints")

\* lines 210-215
AcceptTensors(tensors) ==
    Dispose(Dispose(Create(tensors, "keypointsReshaped"), "keypoints"), "keypointsReshaped")

Init ==
    /\ regionsOfInterest = <<>>
    /\ runsWithoutHandDetector = 0
    /\ maxContinuousChecks \in 0..MaxChecks
    /\ detectionConfidence \in DetectionConfidences
    /\ pc = "idle"
    /\ awaiting = <<>>
    /\ call = NewCall(FALSE, 0)
    /\ live = {}
    /\ result = NoResult
    /\ sinceForced = 0

----------------------------------------------------------------------------
(* estimateHand, lines 159-228, one action per stretch of it.  A call runs *)
(* alone from its start, or from the return of the detector, to its        *)
(* return: the await of line 162 is its only suspension point.  Frames are *)
(* processed one after the other: a call starts when none is in flight.    *)
(* A local `const x = e' is bound as \E x \in {e}, so e is evaluated once. *)

NoCallInFlight == pc = "idle" /\ awaiting = <<>>

\* lines 160-162: full detection is due, the detector is invoked and the
\* call suspends
EstimateHandDetect(minConfidence) ==
    /\ NoCallInFlight
    /\ shouldUpdateRegionsOfInterest(regionsOfInterest, runsWithoutHandDetector,
                                     maxContinuousChecks)
    /\ awaiting' = Append(awaiting, [minConfidence |-> minConfidence])
    /\ UNCHANGED << regionsOfInterest, runsWithoutHandDetector, maxContinuousChecks,
                    detectionConfidence, pc, call, live, result, sinceForced >>

\* lines 160-161, 170-172: the tracked region is reused
EstimateHandTrack(minConfidence) ==
    /\ NoCallInFlight
    /\ ~shouldUpdateRegionsOfInterest(regionsOfInterest, runsWithoutHandDetector,
                                      maxContinuousChecks)
    /\ runsWithoutHandDetector' = runsWithoutHandDetector + 1
    /\ sinceForced' = sinceForced + 1
    /\ call' = NewCall(FALSE, minConfidence)
    /\ pc' = "crop"
    /\ UNCHANGED << regionsOfInterest, maxContinuousChecks, detectionConfidence,
                    awaiting, live, result >>

Without(s, i) == [j \in 1..(Len(s) - 1) |-> IF j < i THEN s[j] ELSE s[j + 1]]

\* a slip: the frame whose detector found no palm is counted as a run
\* without the detector
DetectorReturnsNull_CountsRun(i) ==
    /\ pc = "idle"
    /\ i \in 1..Len(awaiting)
    /\ awaiting' = Without(awaiting, i)
    /\ call' = [NewCall(TRUE, awaiting[i].minConfidence)
                   EXCEPT !.detectorCalls = 1, !.imageDisposed = TRUE]
    /\ regionsOfInterest' = <<>>
    /\ runsWithoutHandDetector' = runsWithoutHandDetector + 1
    /\ result' = NullResult
    /\ UNCHANGED << maxContinuousChecks, detectionConfidence, pc, live, sinceForced >>

\* lines 162-167: the detector found no palm
DetectorReturnsNull(i) ==
    /\ pc = "idle"
    /\ i \in 1..Len(awaiting)
    /\ awaiting' = Without(awaiting, i)
    /\ call' = [NewCall(TRUE, awaiting[i].minConfidence)
                   EXCEPT !.detectorCalls = 1, !.imageDisposed = TRUE]
    /\ regionsOfInterest' = <<>>
    /\ result' = NullResult
    /\ UNCHANGED << runsWithoutHandDetector, maxContinuousChecks, detectionConfidence,
                    pc, live, sinceForced >>

\* a slip: line 169 is missing, the counter is not reset
DetectorReturnsBox_NoReset(i, boundingBoxPrediction) ==
    /\ pc = "idle"
    /\ i \in 1..Len(awaiting)
    /\ awaiting' = Without(awaiting, i)
    /\ call' = [NewCall(TRUE, awaiting[i].minConfidence)
                   EXCEPT !.detectorCalls = 1,
                          !.boundingBoxPrediction = boundingBoxPrediction,
                          !.roisBefore = regionsOfInterest]
    /\ regionsOfInterest' =
           updateRegionsOfInterest(regionsOfInterest, boundingBoxPrediction, TRUE)
    /\ sinceForced' = 0
    /\ pc' = "crop"
    /\ UNCHANGED << runsWithoutHandDetector, maxContinuousChecks, detectionConfidence,
                    live, result >>

\* a slip: line 168 is missing, the detected box is not stored
DetectorReturnsBox_NoForcedUpdate(i, boundingBoxPrediction) ==
    /\ pc = "idle"
    /\ i \in 1..Len(awaiting)
    /\ awaiting' = Without(awaiting, i)
    /\ call' = [NewCall(TRUE, awaiting[i].minConfidence)
                   EXCEPT !.detectorCalls = 1,
                          !.boundingBoxPrediction = boundingBoxPrediction,
                          !.roisBefore = regionsOfInterest]
    /\ runsWithoutHandDetector' = 0
    /\ sinceForced' = 0
    /\ pc' = "crop"
    /\ UNCHANGED << regionsOfInterest, maxContinuousChecks, detectionConfidence,
                    live, result >>

\* lines 162-169: the detector found a palm
DetectorReturnsBox(i, boundingBoxPrediction) ==
    /\ pc = "idle"
    /\ i \in 1..Len(awaiting)
    /\ awaiting' = Without(awaiting, i)
    /\ call' = [NewCall(TRUE, awaiting[i].minConfidence)
                   EXCEPT !.detectorCalls = 1,
                          !.boundingBoxPrediction = boundingBoxPrediction,
                          !.roisBefore = regionsOfInterest]
    /\ regionsOfInterest' =
           updateRegionsOfInterest(regionsOfInterest, boundingBoxPrediction, TRUE)
    /\ runsWithoutHandDetector' = 0
    /\ sinceForced' = 0
    /\ pc' = "crop"
    /\ UNCHANGED << maxContinuousChecks, detectionConfidence, live, result >>

\* a slip: the rotation matrix is built with angle for -angle
CropInput_MatrixOfAngle ==
    /\ pc = "crop"
    /\ IF Len(regionsOfInterest) = 0 \/ regionsOfInterest[1].palmLandmarks = NoLandmarks
       THEN /\ pc' = "threw"
            /\ UNCHANGED << call, live >>
       ELSE \E currentBox \in { regionsOfInterest[1] } :
            \E angle \in { computeRotation(
                    currentBox.palmLandmarks[PALM_LANDMARKS_INDEX_OF_PALM_BASE + 1],
                    currentBox.palmLandmarks[PALM_LANDMARKS_INDEX_OF_MIDDLE_FINGER_BASE + 1]) } :
            \E palmCenter \in { getBoxCenter(currentBox) } :
            \* the two quotients, each kept as (numerator, denominator)
            \E palmCenterNormalized \in { << << palmCenter[1], ImageShape[3] >>,
                                             << palmCenter[2], ImageShape[2] >> >> } :
            \E rotationMatrix \in { buildRotationMatrix(angle, palmCenter) } :
            \E box \in { IF call.useFreshBox
                         THEN getBoxForPalmLandmarks(currentBox.palmLandmarks, rotationMatrix)
                         ELSE currentBox } :
                /\ call' = [call EXCEPT !.currentBox = currentBox,
                                        !.angle = angle,
                                        !.palmCenterNormalized = palmCenterNormalized,
                                        !.rotateAngle = angle,
                                        !.rotationMatrix = rotationMatrix,
                                        !.box = box]
                /\ live' = CropTensors(live)
                /\ pc' = "predict"
    /\ UNCHANGED << regionsOfInterest, runsWithoutHandDetector, maxContinuousChecks,
                    detectionConfidence, awaiting, result, sinceForced >>

\* lines 174-187: the frame is rotated and the crop cut and normalised.
\* Reading palmLandmarks of an absent region throws a TypeError.
CropInput ==
    /\ pc = "crop"
    /\ IF Len(regionsOfInterest) = 0 \/ regionsOfInterest[1].palmLandmarks = NoLandmarks
       THEN /\ pc' = "threw"
            /\ UNCHANGED << call, live >>
       ELSE \E currentBox \in { regionsOfInterest[1] } :
            \E angle \in { computeRotation(
                    currentBox.palmLandmarks[PALM_LANDMARKS_INDEX_OF_PALM_BASE + 1],
                    currentBox.palmLandmarks[PALM_LANDMARKS_INDEX_OF_MIDDLE_FINGER_BASE + 1]) } :
            \E palmCenter \in { getBoxCenter(currentBox) } :
            \* the two quotients, each kept as (numerator, denominator)
            \E palmCenterNormalized \in { << << palmCenter[1], ImageShape[3] >>,
                                             << palmCenter[2], ImageShape[2] >> >> } :
            \E rotationMatrix \in { buildRotationMatrix(-angle, palmCenter) } :
            \E box \in { IF call.useFreshBox
                         THEN getBoxForPalmLandmarks(currentBox.palmLandmarks, rotationMatrix)
                         ELSE currentBox } :
                /\ call' = [call EXCEPT !.currentBox = currentBox,
                                        !.angle = angle,
                                        !.palmCenterNormalized = palmCenterNormalized,
                                        !.rotateAngle = angle,
                                        !.rotationMatrix = rotationMatrix,
                                        !.box = box]
                /\ live' = CropTensors(live)
                /\ pc' = "predict"
    /\ UNCHANGED << regionsOfInterest, runsWithoutHandDetector, maxContinuousChecks,
                    detectionConfidence, awaiting, result, sinceForced >>

\* lines 188-204: the landmark model is run once, on either backend (the
\* WEBGL_PACK_DEPTHWISECONV flag is set and put back around it)
Predict(flagValue, rawCoords) ==
    /\ pc = "predict"
    /\ call' = [call EXCEPT !.meshCalls = @ + 1,
                            !.flagValue = flagValue,
                            !.rawCoords = rawCoords]
    /\ live' = PredictTensors(live)
    /\ pc' = "decide"
    /\ UNCHANGED << regionsOfInterest, runsWithoutHandDetector, maxContinuousChecks,
                    detectionConfidence, awaiting, result, sinceForced >>

\* a slip: the confidence is compared with the constructor's threshold
BelowConfidence_ConstructorThreshold(flagValue, minConfidence) ==
    flagValue < detectionConfidence

\* line 205
BelowConfidence(flagValue, minConfidence) == flagValue < minConfidence

\* a slip: line 207 is missing, the tracked region is not cleared
RejectHand_KeepsRegion ==
    /\ pc = "decide"
    /\ BelowConfidence(call.flagValue, call.minConfidence)
    /\ live' = RejectTensors(live)
    /\ result' = NullResult
    /\ pc' = "idle"
    /\ UNCHANGED << regionsOfInterest, runsWithoutHandDetector, maxContinuousChecks,
                    detectionConfidence, awaiting, call, sinceForced >>

\* a slip: the low confidence is thrown, the call returns nothing
RejectHand_Throws ==
    /\ pc = "decide"
    /\ BelowConfidence(call.flagValue, call.minConfidence)
    /\ live' = RejectTensors(live)
    /\ regionsOfInterest' = <<>>
    /\ pc' = "threw"
    /\ UNCHANGED << runsWithoutHandDetector, maxContinuousChecks, detectionConfidence,
                    awaiting, call, result, sinceForced >>

\* lines 205-209: the confidence is too low
RejectHand ==
    /\ pc = "decide"
    /\ BelowConfidence(call.flagValue, call.minConfidence)
    /\ live' = RejectTensors(live)
    /\ regionsOfInterest' = <<>>
    /\ result' = NullResult
    /\ pc' = "idle"
    /\ UNCHANGED << runsWithoutHandDetector, maxContinuousChecks, detectionConfidence,
                    awaiting, call, sinceForced >>

\* a slip: the corners returned are those of the region the tracker holds
AcceptHand_ReturnsTrackedCorners ==
    /\ pc = "decide"
    /\ ~BelowConfidence(call.flagValue, call.minConfidence)
    /\ \E coords \in { transformRawCoords(call.rawCoords, call.box, call.angle,
                                          call.rotationMatrix) } :
       \E nextBoundingBox \in { getBoxForHandLandmarks(coords) } :
       \E rois \in { updateRegionsOfInterest(regionsOfInterest, nextBoundingBox, FALSE) } :
           /\ regionsOfInterest' = rois
           /\ call' = [call EXCEPT
                  !.coords = coords,
                  !.nextBoundingBox = nextBoundingBox,
                  !.roisBefore = regionsOfInterest,
                  !.iou = IF Len(regionsOfInterest) >= 1
                          THEN iouOfRegions(nextBoundingBox, regionsOfInterest[1], TRUE)
                          ELSE NoFraction]
           /\ result' = [kind |-> "hand", landmarks |-> coords,
                         confidence |-> call.flagValue,
                         box |-> [topLeft |-> rois[1].startPoint,
                                  bottomRight |-> rois[1].endPoint]]
    /\ live' = AcceptTensors(live)
    /\ pc' = "idle"
    /\ UNCHANGED << runsWithoutHandDetector, maxContinuousChecks, detectionConfidence,
                    awaiting, sinceForced >>

\* lines 210-228: the keypoints are mapped to the frame and the tracker is
\* updated with the box around them
AcceptHand ==
    /\ pc = "decide"
    /\ ~BelowConfidence(call.flagValue, call.minConfidence)
    /\ \E coords \in { transformRawCoords(call.rawCoords, call.box, call.angle,
                                          call.rotationMatrix) } :
       \E nextBoundingBox \in { getBoxForHandLandmarks(coords) } :
           /\ regionsOfInterest' =
                  updateRegionsOfInterest(regionsOfInterest, nextBoundingBox, FALSE)
           /\ call' = [call EXCEPT
                  !.coords = coords,
                  !.nextBoundingBox = nextBoundingBox,
                  !.roisBefore = regionsOfInterest,
                  !.iou = IF Len(regionsOfInterest) >= 1
                          THEN iouOfRegions(nextBoundingBox, regionsOfInterest[1], TRUE)
                          ELSE NoFraction]
           /\ result' = [kind |-> "hand", landmarks |-> coords,
                         confidence |-> call.flagValue,
                         box |-> [topLeft |-> nextBoundingBox.startPoint,
                                  bottomRight |-> nextBoundingBox.endPoint]]
    /\ live' = AcceptTensors(live)
    /\ pc' = "idle"
    /\ UNCHANGED << runsWithoutHandDetector, maxContinuousChecks, detectionConfidence,
                    awaiting, sinceForced >>

Next ==
    \/ \E minConfidence \in MinConfidences : EstimateHandDetect(minConfidence)
    \/ \E minConfidence \in MinConfidences : EstimateHandTrack(minConfidence)
    \/ \E i \in 1..Len(awaiting) : DetectorReturnsNull(i)
    \/ \E i \in 1..Len(awaiting), b \in DetectorBoxes : DetectorReturnsBox(i, b)
    \/ CropInput
    \/ \E flagValue \in FlagValues, rawCoords \in RawCoordSets : Predict(flagValue, rawCoords)
    \/ RejectHand
    \/ AcceptHand

Spec == Init /\ [][Next]_vars

----------------------------------------------------------------------------
(* The pipeline under fair scheduling, for what must eventually happen.    *)
(* The frames are those of Spec, with fewer detector answers and keypoint  *)
(* sets.                                                                   *)

FewDetectorBoxes == { PalmBox(300, 300, 25, 0), PalmBox(340, 280, 30, 1) }

FewRawCoordSets == { RawHand(128, 128, 38, 0), RawHand(150, 128, 20, 1) }

FairNext ==
    \/ \E minConfidence \in MinConfidences : EstimateHandDetect(minConfidence)
    \/ \E minConfidence \in MinConfidences : EstimateHandTrack(minConfidence)
    \/ \E i \in 1..Len(awaiting) : DetectorReturnsNull(i)
    \/ \E i \in 1..Len(awaiting), b \in FewDetectorBoxes : DetectorReturnsBox(i, b)
    \/ CropInput
    \/ \E flagValue \in FlagValues, rawCoords \in FewRawCoordSets :
          Predict(flagValue, rawCoords)
    \/ RejectHand
    \/ AcceptHand

\* The external model call returns (the proviso of the termination claim):
\* a suspended call is resumed with the detector's answer.
DetectorReturns ==
    \/ \E i \in 1..Len(awaiting) : DetectorReturnsNull(i)
    \/ \E i \in 1..Len(awaiting), b \in FewDetectorBoxes : DetectorReturnsBox(i, b)

\* A call that runs is not suspended before its return: lines 174-228 are
\* synchronous (meshDetector.predict, dataSync and arraySync return).
RunsOn ==
    \/ CropInput
    \/ \E flagValue \in FlagValues, rawCoords \in FewRawCoordSets :
          Predict(flagValue, rawCoords)
    \/ RejectHand
    \/ AcceptHand

\* the states in which a step of RunsOn is enabled: CropInput at "crop" (on
\* either branch of its IF), Predict at "predict", RejectHand or AcceptHand
\* at "decide"
Running == pc \in {"crop", "predict", "decide"}

\* weak fairness of DetectorReturns and of RunsOn; the latter is written
\* out with Running for ENABLED <<RunsOn>>_vars
FairSpec ==
    /\ Init
    /\ [][FairNext]_vars
    /\ WF_vars(DetectorReturns)
    /\ (<>[]Running => []<><<RunsOn>>_vars)

----------------------------------------------------------------------------
(* Calls that interleave.  A caller that does not wait for the previous    *)
(* frame's promise starts estimateHand while other calls are suspended at  *)
(* the await of line 162; a running call is never interrupted (run to      *)
(* completion), and the detector's answers come back in any order.         *)

\* the most calls suspended at the await at one time
MaxInFlight == 2

\* lines 160-162, started while other calls may be suspended
EstimateHandDetectInterleaved(minConfidence) ==
    /\ pc = "idle"
    /\ Len(awaiting) < MaxInFlight
    /\ shouldUpdateRegionsOfInterest(regionsOfInterest, runsWithoutHandDetector,
                                     maxContinuousChecks)
    /\ awaiting' = Append(awaiting, [minConfidence |-> minConfidence])
    /\ UNCHANGED << regionsOfInterest, runsWithoutHandDetector, maxContinuousChecks,
                    detectionConfidence, pc, call, live, result, sinceForced >>

\* lines 160-161, 170-172, started while other calls may be suspended
EstimateHandTrackInterleaved(minConfidence) ==
    /\ pc = "idle"
    /\ ~shouldUpdateRegionsOfInterest(regionsOfInterest, runsWithoutHandDetector,
                                      maxContinuousChecks)
    /\ runsWithoutHandDetector' = runsWithoutHandDetector + 1
    /\ sinceForced' = sinceForced + 1
    /\ call' = NewCall(FALSE, minConfidence)
    /\ pc' = "crop"
    /\ UNCHANGED << regionsOfInterest, maxContinuousChecks, detectionConfidence,
                    awaiting, live, result >>

InterleavedNext ==
    \/ \E minConfidence \in MinConfidences : EstimateHandDetectInterleaved(minConfidence)
    \/ \E minConfidence \in MinConfidences : EstimateHandTrackInterleaved(minConfidence)
    \/ \E i \in 1..Len(awaiting) : DetectorReturnsNull(i)
    \/ \E i \in 1..Len(awaiting), b \in FewDetectorBoxes : DetectorReturnsBox(i, b)
    \/ CropInput
    \/ \E flagValue \in FlagValues, rawCoords \in FewRawCoordSets :
          Predict(flagValue, rawCoords)
    \/ RejectHand
    \/ AcceptHand

InterleavedSpec == Init /\ [][InterleavedNext]_vars

----------------------------------------------------------------------------
(* The methods called on their own, on inputs drawn from bounded sets: one *)
(* call of updateRegionsOfInterest, getBoxForHandLandmarks or              *)
(* transformRawCoords on a pipeline object.                                *)

\* the largest coordinate of the boxes updateRegionsOfInterest is called on
GridMax == 3

\* the largest scale of the landmark sets getBoxForHandLandmarks is called on
MaxScale == 3

\* the valid boxes on the grid: startPoint <= endPoint in both components
GridBoxes ==
    { Box(sx, sy, ex, ey) : sx \in 0..GridMax, sy \in 0..GridMax,
                            ex \in 0..GridMax, ey \in 0..GridMax } \cap
    { b \in [startPoint : (0..GridMax) \X (0..GridMax),
             endPoint : (0..GridMax) \X (0..GridMax), palmLandmarks : {NoLandmarks}] :
        b.startPoint[1] <= b.endPoint[1] /\ b.startPoint[2] <= b.endPoint[2] }

\* 21 landmarks about (cx, cy): the hand template turned by q quarter turns
\* and stretched, so that its bounding box is 40 * sx wide and 40 * sy high
\* (every division of the box geometry is then exact)
LatticeHand(cx, cy, sx, sy, q) ==
    [i \in 1..Len(HandTemplate) |->
        << cx + 10 * sx * Turned(HandTemplate[i], q)[1],
           cy + 10 * sy * Turned(HandTemplate[i], q)[2],
           i - 11 >>]

LatticeHands ==
    { LatticeHand(cx, cy, sx, sy, q) :
        cx \in {30, 200}, cy \in {50, 75}, sx \in 1..MaxScale, sy \in 1..MaxScale,
        q \in 0..3 }

\* crop boxes with even corners and sizes, so that their centre is exact
CropBoxes ==
    { Box(sx, sy, sx + w, sy + h) :
        sx \in {0, 100}, sy \in {-50, 20}, w \in {256, 512}, h \in {256, 300} }

QuarterTurns == {-1, 0, 1, 2}

Pivots == { <<0, 0>>, <<130, 90>> }

MethodInit ==
    /\ runsWithoutHandDetector = 0
    /\ maxContinuousChecks = 0
    /\ detectionConfidence \in DetectionConfidences
    /\ awaiting = <<>>
    /\ live = {}
    /\ result = NoResult
    /\ sinceForced = 0
    /\ \/ /\ pc = "update"
          /\ regionsOfInterest \in { <<>> } \cup { << b >> : b \in GridBoxes }
          /\ call = NewCall(FALSE, 0)
       \/ /\ pc = "handBox"
          /\ regionsOfInterest = <<>>
          /\ \E landmarks \in LatticeHands :
                call = [NewCall(FALSE, 0) EXCEPT !.coords = landmarks]
       \/ /\ pc = "transform"
          /\ regionsOfInterest = <<>>
          /\ \E rawCoords \in RawCoordSets, box \in CropBoxes, angle \in QuarterTurns,
                rotation \in QuarterTurns, center \in Pivots :
                call = [NewCall(FALSE, 0) EXCEPT
                           !.rawCoords = rawCoords,
                           !.box = box,
                           !.angle = angle,
                           !.rotateAngle = rotation,
                           !.rotationMatrix = buildRotationMatrix(rotation, center)]

\* this.updateRegionsOfInterest(box, forceUpdate), lines 241-263
CallUpdateRegionsOfInterest(box, forceUpdate) ==
    /\ pc = "update"
    /\ regionsOfInterest' = updateRegionsOfInterest(regionsOfInterest, box, forceUpdate)
    /\ call' = [call EXCEPT
           !.useFreshBox = forceUpdate,
           !.nextBoundingBox = box,
           !.roisBefore = regionsOfInterest,
           !.iou = IF ~forceUpdate /\ Len(regionsOfInterest) >= 1
                   THEN iouOfRegions(box, regionsOfInterest[1], TRUE)
                   ELSE NoFraction]
    /\ pc' = "updated"
    /\ UNCHANGED << runsWithoutHandDetector, maxContinuousChecks, detectionConfidence,
                    awaiting, live, result, sinceForced >>

\* this.getBoxForHandLandmarks(landmarks), lines 119-131
CallGetBoxForHandLandmarks ==
    /\ pc = "handBox"
    /\ call' = [call EXCEPT !.nextBoundingBox = getBoxForHandLandmarks(call.coords)]
    /\ pc' = "boxed"
    /\ UNCHANGED << regionsOfInterest, runsWithoutHandDetector, maxContinuousChecks,
                    detectionConfidence, awaiting, live, result, sinceForced >>

\* this.transformRawCoords(rawCoords, box, angle, rotationMatrix), lines 135-157
CallTransformRawCoords ==
    /\ pc = "transform"
    /\ call' = [call EXCEPT !.coords =
           transformRawCoords(call.rawCoords, call.box, call.angle, call.rotationMatrix)]
    /\ pc' = "transformed"
    /\ UNCHANGED << regionsOfInterest, runsWithoutHandDetector, maxContinuousChecks,
                    detectionConfidence, awaiting, live, result, sinceForced >>

MethodNext ==
    \/ \E box \in GridBoxes, forceUpdate \in BOOLEAN :
          CallUpdateRegionsOfInterest(box, forceUpdate)
    \/ CallGetBoxForHandLandmarks
    \/ CallTransformRawCoords

MethodSpec == MethodInit /\ [][MethodNext]_vars

----------------------------------------------------------------------------
(* Steps and states the claims speak of.                                   *)

\* a step in which an estimateHand call starts
CallStarts == NoCallInFlight /\ (awaiting' # <<>> \/ pc' = "crop")

\* a step in which boundingBoxDetector.estimateHandBounds is invoked
DetectorInvoked == Len(awaiting') = Len(awaiting) + 1

\* a step in which the detector returns a palm box to the waiting call
DetectorAnswersBox ==
    /\ Len(awaiting') = Len(awaiting) - 1
    /\ call'.boundingBoxPrediction \in DetectorBoxes

\* the last call has returned, and it ended with no hand: its detector
\* returned null, or its landmark confidence was below the threshold
EndedWithNoHand ==
    /\ NoCallInFlight
    /\ \/ call.detectorCalls = 1 /\ call.boundingBoxPrediction = NoBox
       \/ call.meshCalls = 1 /\ call.flagValue < call.minConfidence

\* the state right after the forced update of lines 168-169
AfterForcedUpdate == pc = "crop" /\ call.useFreshBox

FullDetectionDue ==
    shouldUpdateRegionsOfInterest(regionsOfInterest, runsWithoutHandDetector,
                                  maxContinuousChecks)

----------------------------------------------------------------------------
\* C1: a starting estimateHand call invokes the bounding-box detector if and
\* only if the number of tracked regions differs from 1 or
\* runsWithoutHandDetector >= maxContinuousChecks, and
\* shouldUpdateRegionsOfInterest is true in exactly those states.
C1_DetectorIffDue ==
    /\ [](FullDetectionDue <=>
            (Len(regionsOfInterest) # 1
                \/ runsWithoutHandDetector >= maxContinuousChecks))
    /\ [][CallStarts =>
            (DetectorInvoked <=>
                (Len(regionsOfInterest) # 1
                    \/ runsWithoutHandDetector >= maxContinuousChecks))]_vars

\* a call has invoked the detector although one region is tracked, because
\* the counter reached the ceiling
C1_Witness ==
    /\ awaiting # <<>>
    /\ Len(regionsOfInterest) = 1
    /\ maxContinuousChecks >= 1
    /\ runsWithoutHandDetector >= maxContinuousChecks

\* C2: after a call that ended with no hand the call has returned null and
\* no region is tracked; the next call invokes the bounding-box detector;
\* and when the detector answers with a palm box the frame goes on to the
\* landmark estimation (the crop, then the landmark model).
C2_NoHandForcesDetection ==
    /\ [](EndedWithNoHand => result.kind = "null" /\ regionsOfInterest = <<>>)
    /\ [][EndedWithNoHand /\ CallStarts => DetectorInvoked]_vars
    /\ [][DetectorAnswersBox =>
            /\ pc' = "crop"
            /\ regionsOfInterest' = << call'.boundingBoxPrediction >>]_vars
    /\ [][pc = "crop" => pc' = "predict"]_vars

\* the frame after a null return ran the detector, got a palm box and has
\* reached the landmark model
C2_Witness ==
    /\ pc = "predict"
    /\ call.useFreshBox
    /\ call.boundingBoxPrediction \in DetectorBoxes
    /\ result.kind = "null"

----------------------------------------------------------------------------
\* no call was made yet on the pipeline
FreshlyConstructed == NoCallInFlight /\ result.kind = "none"

\* the last call has returned a hand: every frame since the last forced
\* update succeeded, and sinceForced of them skipped the detector
HandReturned == NoCallInFlight /\ result.kind = "hand"

\* C3 as stated, for every maxContinuousChecks: full detection is due on a
\* fresh pipeline, not due right after a forced update, and due again after
\* exactly maxContinuousChecks successful tracking frames.
C3_Original ==
    /\ FreshlyConstructed => FullDetectionDue
    /\ AfterForcedUpdate => ~FullDetectionDue
    /\ HandReturned => (FullDetectionDue <=> sinceForced = maxContinuousChecks)

\* C3, amended: for every maxContinuousChecks >= 1 full detection is not due
\* right after a forced update; for every maxContinuousChecks it is due on a
\* fresh pipeline and, after a forced update, due again after exactly
\* maxContinuousChecks successful tracking frames, not earlier.
C3_DueAgainAfterMaxChecks ==
    /\ FreshlyConstructed => FullDetectionDue
    /\ AfterForcedUpdate /\ maxContinuousChecks >= 1 => ~FullDetectionDue
    /\ HandReturned => (FullDetectionDue <=> sinceForced = maxContinuousChecks)

\* maxContinuousChecks tracking frames have succeeded since the forced
\* update, and full detection is due again
C3_Witness ==
    /\ HandReturned
    /\ maxContinuousChecks >= 2
    /\ sinceForced = maxContinuousChecks
    /\ FullDetectionDue

----------------------------------------------------------------------------
\* C4: right after the forced update of a frame whose detector found a palm,
\* the tracked region set is exactly the detected box, whatever was tracked
\* before, and runsWithoutHandDetector is 0.
C4_ForcedUpdateReplaces ==
    AfterForcedUpdate =>
        /\ regionsOfInterest = << call.boundingBoxPrediction >>
        /\ runsWithoutHandDetector = 0

\* a forced update has replaced a tracked region by another box
C4_Witness ==
    /\ AfterForcedUpdate
    /\ Len(call.roisBefore) = 1
    /\ call.roisBefore[1] # call.boundingBoxPrediction
    /\ regionsOfInterest = << call.boundingBoxPrediction >>

----------------------------------------------------------------------------
(* The intersection over union of two boxes as the specification defines   *)
(* it: the intersection clipped with max(start) and min(end), empty when   *)
(* the boxes do not overlap; each area from that box's own corners.        *)

BoxArea(b) ==
    (b.endPoint[1] - b.startPoint[1]) * (b.endPoint[2] - b.startPoint[2])

StandardIntersection(a, b) ==
    Max(0, Min(a.endPoint[1], b.endPoint[1]) - Max(a.startPoint[1], b.startPoint[1]))
        * Max(0, Min(a.endPoint[2], b.endPoint[2]) - Max(a.startPoint[2], b.startPoint[2]))

StandardIou(a, b) ==
    [num |-> StandardIntersection(a, b),
     den |-> BoxArea(a) + BoxArea(b) - StandardIntersection(a, b)]

ValidBox(b) ==
    b.startPoint[1] <= b.endPoint[1] /\ b.startPoint[2] <= b.endPoint[2]

\* the last call returned a hand and its tracking update found a region
TrackedUpdateDone == HandReturned /\ Len(call.roisBefore) = 1

\* C5: a tracking update of an existing region with valid boxes keeps the
\* existing region exactly when the standard intersection over union of the
\* new box and the region is above 0.8, and stores the new box otherwise.
C5_KeepsIffStandardIou ==
    TrackedUpdateDone /\ ValidBox(call.nextBoundingBox) /\ ValidBox(call.roisBefore[1]) =>
        IF FractionGreater(StandardIou(call.nextBoundingBox, call.roisBefore[1]),
                           UPDATE_REGION_OF_INTEREST_IOU_THRESHOLD)
        THEN regionsOfInterest = call.roisBefore
        ELSE regionsOfInterest = << call.nextBoundingBox >>

----------------------------------------------------------------------------
SameCorners(a, b) == a.startPoint = b.startPoint /\ a.endPoint = b.endPoint

\* separated in x, in y, or in both
Disjoint(a, b) ==
    \/ a.endPoint[1] < b.startPoint[1]
    \/ b.endPoint[1] < a.startPoint[1]
    \/ a.endPoint[2] < b.startPoint[2]
    \/ b.endPoint[2] < a.startPoint[2]

\* updateRegionsOfInterest(box, false) has run on a tracked region
TrackedUpdateCalled ==
    pc = "updated" /\ ~call.useFreshBox /\ Len(call.roisBefore) = 1

\* C6: the iou computed in updateRegionsOfInterest is 1 when the new box and
\* the existing region are the same box of positive area, and 0 when the two
\* boxes (of positive area) are disjoint.
C6_IouOfSameAndDisjoint ==
    TrackedUpdateCalled =>
        /\ SameCorners(call.nextBoundingBox, call.roisBefore[1])
              /\ BoxArea(call.nextBoundingBox) > 0
           => call.iou.den # 0 /\ call.iou.num = call.iou.den
        /\ Disjoint(call.nextBoundingBox, call.roisBefore[1])
              /\ BoxArea(call.nextBoundingBox) > 0
              /\ BoxArea(call.roisBefore[1]) > 0
           => call.iou.den # 0 /\ call.iou.num = 0

----------------------------------------------------------------------------
\* C7: regionsOfInterest holds at most one box in every reachable state.
C7_AtMostOneRegion == Len(regionsOfInterest) <= 1

\* a tracking update has replaced the tracked region by the new box
C7_Witness ==
    /\ TrackedUpdateDone
    /\ regionsOfInterest = << call.nextBoundingBox >>
    /\ regionsOfInterest # call.roisBefore

----------------------------------------------------------------------------
\* C8: when estimateHand has returned, on any of its exit paths, none of the
\* transient tensors it created is still live.
C8_TensorsDisposedAtReturn == pc = "idle" => live = {}

\* a call has returned on the confidence rejection, after it created the
\* rotated frame, the crops and the model outputs
C8_Witness ==
    /\ EndedWithNoHand
    /\ call.meshCalls = 1
    /\ call.flagValue < call.minConfidence
    /\ live = {}

----------------------------------------------------------------------------
(* The bounding box of a landmark set, stated without the code's helpers.  *)

IsLeast(m, landmarks, k) ==
    /\ \E i \in 1..Len(landmarks) : landmarks[i][k] = m
    /\ \A i \in 1..Len(landmarks) : m <= landmarks[i][k]

IsGreatest(m, landmarks, k) ==
    /\ \E i \in 1..Len(landmarks) : landmarks[i][k] = m
    /\ \A i \in 1..Len(landmarks) : m >= landmarks[i][k]

\* box is the square of side 1.65 * max(w, h) whose centre is the centre of
\* the rectangle (x0, y0)-(x1, y1) moved up by 0.1 of its height
IsHandBoxOf(box, x0, y0, x1, y1) ==
    LET w == x1 - x0
        h == y1 - y0
        side == IF w >= h THEN w ELSE h
    IN  /\ box.startPoint[1] + box.endPoint[1] = x0 + x1
        /\ 10 * (box.startPoint[2] + box.endPoint[2]) = 10 * (y0 + y1) - 2 * h
        /\ 20 * (box.endPoint[1] - box.startPoint[1]) = 33 * side
        /\ 20 * (box.endPoint[2] - box.startPoint[2]) = 33 * side

\* C9: for a 21-point landmark set getBoxForHandLandmarks returns the
\* min/max bounding box shifted by (0, -0.1) of its size, squarified and
\* enlarged by 1.65, with palmLandmarks the points 0, 5, 9, 13, 17, 1, 2 of
\* the input, in that order, cut to two components; the input is unchanged.
C9_HandBoxOfLandmarks ==
    /\ [](pc = "boxed" =>
            /\ Len(call.coords) = 21
            /\ \E x0, x1 \in { call.coords[i][1] : i \in 1..21 } :
               \E y0, y1 \in { call.coords[i][2] : i \in 1..21 } :
                  /\ IsLeast(x0, call.coords, 1) /\ IsGreatest(x1, call.coords, 1)
                  /\ IsLeast(y0, call.coords, 2) /\ IsGreatest(y1, call.coords, 2)
                  /\ IsHandBoxOf(call.nextBoundingBox, x0, y0, x1, y1)
            /\ call.nextBoundingBox.palmLandmarks =
                  << << call.coords[1][1], call.coords[1][2] >>,
                     << call.coords[6][1], call.coords[6][2] >>,
                     << call.coords[10][1], call.coords[10][2] >>,
                     << call.coords[14][1], call.coords[14][2] >>,
                     << call.coords[18][1], call.coords[18][2] >>,
                     << call.coords[2][1], call.coords[2][2] >>,
                     << call.coords[3][1], call.coords[3][2] >> >>)
    /\ [][pc = "handBox" => call'.coords = call.coords]_vars

\* the box of the landmark set whose bounding box is (10,10)-(50,90): the
\* square (-36,-24)-(96,108)
C9_Witness ==
    /\ pc = "boxed"
    /\ IsLeast(10, call.coords, 1) /\ IsGreatest(50, call.coords, 1)
    /\ IsLeast(10, call.coords, 2) /\ IsGreatest(90, call.coords, 2)
    /\ call.nextBoundingBox.startPoint = <<-36, -24>>
    /\ call.nextBoundingBox.endPoint = <<96, 108>>

----------------------------------------------------------------------------
\* transformRawCoords was called with angle 0 and the matrix of angle 0
CalledWithAngleZero ==
    /\ pc = "transformed"
    /\ call.angle = 0
    /\ call.rotateAngle = 0
    /\ call.rotationMatrix = << <<1, 0, 0>>, <<0, 1, 0>> >>

\* C10: with alignment angle 0 and the rotation matrix built for angle 0,
\* transformRawCoords maps a keypoint at the centre of the model input,
\* (meshWidth/2, meshHeight/2), to the centre of the crop box.
C10_CentreMapsToBoxCentre ==
    CalledWithAngleZero =>
        \A i \in 1..Len(call.rawCoords) :
            2 * call.rawCoords[i][1] = meshWidth /\ 2 * call.rawCoords[i][2] = meshHeight
            => /\ 2 * call.coords[i][1] = call.box.startPoint[1] + call.box.endPoint[1]
               /\ 2 * call.coords[i][2] = call.box.startPoint[2] + call.box.endPoint[2]

\* a keypoint at the centre of the model input was mapped to the centre
\* (356, 170) of the crop box (100,20)-(612,320)
C10_Witness ==
    /\ CalledWithAngleZero
    /\ call.box.startPoint = <<100, 20>>
    /\ call.box.endPoint = <<612, 320>>
    /\ \E i \in 1..Len(call.rawCoords) :
          /\ call.rawCoords[i][1] = 128 /\ call.rawCoords[i][2] = 128
          /\ call.coords[i][1] = 356 /\ call.coords[i][2] = 170

----------------------------------------------------------------------------
\* C11: transformRawCoords returns as many points as it was given, each of
\* three components, and the third (depth) component of the i-th output
\* point is the third component of the i-th input point, for every crop
\* box, angle and rotation matrix.
C11_CountOrderDepthKept ==
    pc = "transformed" =>
        /\ Len(call.coords) = Len(call.rawCoords)
        /\ \A i \in 1..Len(call.rawCoords) :
              /\ Len(call.coords[i]) = 3
              /\ call.coords[i][3] = call.rawCoords[i][3]

\* 21 keypoints of distinct depths were mapped through a crop box that is
\* not the size of the model input, with a quarter-turn angle and the
\* matrix of a half turn about a pivot
C11_Witness ==
    /\ pc = "transformed"
    /\ Len(call.coords) = 21
    /\ call.angle = 1
    /\ call.rotationMatrix = buildRotationMatrix(2, <<130, 90>>)
    /\ getBoxSize(call.box) = <<512, 300>>
    /\ call.coords[1][3] = -10
    /\ call.coords[21][3] = 10
    /\ call.coords[1][1] # call.rawCoords[1][1]

----------------------------------------------------------------------------
\* a step in which the running estimateHand call returns
CallReturns == ~NoCallInFlight /\ pc' = "idle" /\ awaiting' = <<>>

\* C12: every estimateHand call, once started, eventually returns, provided
\* the external model calls return; it returns null (NO_HAND) or a result
\* object with the landmarks of this call (HAND_FOUND), never both and never
\* by an exception.
C12_CallEnds ==
    /\ (~NoCallInFlight) ~> (NoCallInFlight /\ result.kind \in {"null", "hand"})
    /\ [][CallReturns =>
            \/ result' = NullResult
            \/ /\ result'.kind = "hand"
               /\ result'.landmarks = call'.coords
               /\ result'.confidence = call'.flagValue]_vars
    /\ [](pc # "threw")

\* a call that ran the detector and the landmark model has returned a hand
C12_Witness ==
    /\ NoCallInFlight
    /\ result.kind = "hand"
    /\ call.detectorCalls = 1
    /\ call.meshCalls = 1
    /\ result.landmarks = call.coords

----------------------------------------------------------------------------
\* the crop of the running call has been cut (lines 174-187)
CropDone == pc \in {"predict", "decide"}

\* the points turned by q quarter turns about center
TurnedAbout(points, center, q) ==
    [i \in 1..Len(points) |->
        << center[1] + Turned(<< points[i][1] - center[1], points[i][2] - center[2] >>, q)[1],
           center[2] + Turned(<< points[i][1] - center[1], points[i][2] - center[2] >>, q)[2] >>]

\* box is the square of side 3 * max(w, h) whose centre is the centre of
\* the rectangle (x0, y0)-(x1, y1) moved up by 0.4 of its height
IsPalmDerivedBoxOf(box, x0, y0, x1, y1) ==
    LET w == x1 - x0
        h == y1 - y0
        side == IF w >= h THEN w ELSE h
    IN  /\ box.startPoint[1] + box.endPoint[1] = x0 + x1
        /\ 10 * (box.startPoint[2] + box.endPoint[2]) = 10 * (y0 + y1) - 8 * h
        /\ box.endPoint[1] - box.startPoint[1] = 3 * side
        /\ box.endPoint[2] - box.startPoint[2] = 3 * side

\* C13: on a frame that ran a full detection the crop box is derived from
\* the palm landmarks of the detected box: the landmarks turned upright
\* about the box centre, their min/max bounding box shifted by (0, -0.4),
\* squarified and enlarged by 3; on every other frame the crop box is the
\* tracked region itself.
C13_CropBoxFreshOrTracked ==
    CropDone =>
        IF call.useFreshBox
        THEN /\ call.currentBox = call.boundingBoxPrediction
             /\ \E upright \in { TurnedAbout(call.currentBox.palmLandmarks,
                                               getBoxCenter(call.currentBox),
                                               -call.angle) } :
                \E x0 \in { upright[i][1] : i \in 1..Len(upright) } :
                   /\ IsLeast(x0, upright, 1)
                   /\ \E x1 \in { upright[i][1] : i \in 1..Len(upright) } :
                      /\ IsGreatest(x1, upright, 1)
                      /\ \E y0 \in { upright[i][2] : i \in 1..Len(upright) } :
                         /\ IsLeast(y0, upright, 2)
                         /\ \E y1 \in { upright[i][2] : i \in 1..Len(upright) } :
                            /\ IsGreatest(y1, upright, 2)
                            /\ IsPalmDerivedBoxOf(call.box, x0, y0, x1, y1)
        ELSE /\ call.detectorCalls = 0
             /\ call.box = regionsOfInterest[1]
             /\ call.box = call.currentBox

\* the palm detected about (340, 280), a quarter turn off the vertical, gave
\* the crop box (160, 52)-(520, 412)
C13_Witness ==
    /\ CropDone
    /\ call.useFreshBox
    /\ call.angle = 1
    /\ call.boundingBoxPrediction.startPoint = <<280, 220>>
    /\ call.box.startPoint = <<160, 52>>
    /\ call.box.endPoint = <<520, 412>>

----------------------------------------------------------------------------
\* a step in which the detector answers null to the waiting call
DetectorAnswersNull ==
    /\ Len(awaiting') = Len(awaiting) - 1
    /\ call'.boundingBoxPrediction = NoBox

\* a step in which meshDetector.predict is invoked
LandmarkModelInvoked == pc = "predict" /\ pc' = "decide"

\* C14: one estimateHand call invokes the bounding-box detector at most
\* once and the landmark model at most once: a call that returned to the
\* confidence test does not go back to either model.  A frame whose
\* detector answers null returns at once, without invoking the landmark
\* model, and leaves runsWithoutHandDetector as it was at the call's start.
C14_OneCallEachNoRetry ==
    /\ [](call.detectorCalls <= 1 /\ call.meshCalls <= 1)
    /\ [][LandmarkModelInvoked => call.meshCalls = 0 /\ call'.meshCalls = 1]_vars
    /\ [][DetectorInvoked => runsWithoutHandDetector' = runsWithoutHandDetector]_vars
    /\ [][pc = "decide" => pc' = "idle" /\ call'.meshCalls = call.meshCalls
                                        /\ Len(awaiting') = Len(awaiting)]_vars
    /\ [][DetectorAnswersNull =>
            /\ pc' = "idle"
            /\ call'.meshCalls = 0
            /\ result' = NullResult
            /\ runsWithoutHandDetector' = runsWithoutHandDetector]_vars

\* after two tracked frames the detector was invoked and answered null: the
\* call has returned without the landmark model, the counter still at 2
C14_Witness ==
    /\ NoCallInFlight
    /\ call.detectorCalls = 1
    /\ call.boundingBoxPrediction = NoBox
    /\ call.meshCalls = 0
    /\ result = NullResult
    /\ runsWithoutHandDetector = 2

----------------------------------------------------------------------------
\* C15: at the confidence test the frame is rejected exactly when the
\* landmark model's confidence is strictly below the call's minConfidence:
\* it then returns null and clears the tracked region; with a confidence
\* equal to or above minConfidence it returns a hand of that confidence.
\* The pipeline's detectionConfidence, below or above the confidence, has no
\* part in it and is never changed.
C15_OnlyMinConfidenceGates ==
    /\ [][pc = "decide" =>
            IF call.flagValue < call.minConfidence
            THEN result' = NullResult /\ regionsOfInterest' = <<>>
            ELSE /\ result'.kind = "hand"
                 /\ result'.confidence = call.flagValue
                 /\ Len(regionsOfInterest') = 1]_vars
    /\ [][detectionConfidence' = detectionConfidence]_vars

\* a hand was returned with a confidence equal to minConfidence and below
\* the pipeline's detectionConfidence
C15_Witness ==
    /\ HandReturned
    /\ call.flagValue = call.minConfidence
    /\ result.confidence < detectionConfidence

\* a frame was rejected although its confidence is above the pipeline's
\* detectionConfidence
C15_RejectedAboveDetectionConfidence ==
    /\ EndedWithNoHand
    /\ call.meshCalls = 1
    /\ call.flagValue < call.minConfidence
    /\ call.flagValue > detectionConfidence

----------------------------------------------------------------------------
\* the iou the tracking update computed is above the threshold
IouAboveThreshold == FractionGreater(call.iou, UPDATE_REGION_OF_INTEREST_IOU_THRESHOLD)

\* C16: when a hand is returned, the new box is the one
\* getBoxForHandLandmarks derives from the returned (mapped) landmarks; the
\* tracker was updated with it without force, so that it holds the previous
\* region where the iou was above 0.8 and the new box otherwise; and the
\* returned topLeft and bottomRight are the corners of the new box in both
\* cases.
C16_ReturnsNewBoxCorners ==
    HandReturned =>
        /\ result.landmarks = call.coords
        /\ call.nextBoundingBox = getBoxForHandLandmarks(result.landmarks)
        /\ Len(call.roisBefore) = 1
        /\ regionsOfInterest =
              IF IouAboveThreshold THEN call.roisBefore ELSE << call.nextBoundingBox >>
        /\ result.box.topLeft = call.nextBoundingBox.startPoint
        /\ result.box.bottomRight = call.nextBoundingBox.endPoint

\* the tracker kept the previous region, and the corners returned are those
\* of the new box, which is another box
C16_Witness ==
    /\ HandReturned
    /\ IouAboveThreshold
    /\ regionsOfInterest = call.roisBefore
    /\ ~SameCorners(regionsOfInterest[1], call.nextBoundingBox)
    /\ result.box.topLeft = call.nextBoundingBox.startPoint
    /\ result.box.bottomRight = call.nextBoundingBox.endPoint

----------------------------------------------------------------------------
\* the same rotation: quarter turns that differ by whole turns
SameTurn(q1, q2) == (q1 - q2) % 4 = 0

\* the centre of the region, normalised: each component kept as the pair
\* (pixel coordinate, frame width or height) of the quotient
NormalizedRegionCenter ==
    << << getBoxCenter(call.currentBox)[1], ImageShape[3] >>,
       << getBoxCenter(call.currentBox)[2], ImageShape[2] >> >>

\* matrix is the affine matrix of the rotation by q quarter turns that
\* leaves center where it is
IsRotationAbout(matrix, q, center) ==
    /\ matrix[1][1] = Cos(q) /\ matrix[1][2] = -Sin(q)
    /\ matrix[2][1] = Sin(q) /\ matrix[2][2] = Cos(q)
    /\ rotatePoint(center \o <<1>>, matrix) = center

\* the matrix puts the middle-finger base straight above the palm base
\* (y grows downwards)
TurnsHandUpright(matrix, palmLandmarks) ==
    LET base == rotatePoint(
                    palmLandmarks[PALM_LANDMARKS_INDEX_OF_PALM_BASE + 1] \o <<1>>, matrix)
        finger == rotatePoint(
                    palmLandmarks[PALM_LANDMARKS_INDEX_OF_MIDDLE_FINGER_BASE + 1] \o <<1>>,
                    matrix)
    IN  finger[1] = base[1] /\ finger[2] <= base[2]

\* C17 as stated: the frame is rotated by the negative of the alignment
\* angle about the normalised region centre, and the rotation matrix is
\* built with the positive alignment angle about the pixel centre.
C17_Original ==
    CropDone =>
        /\ SameTurn(call.rotateAngle, -call.angle)
        /\ call.palmCenterNormalized = NormalizedRegionCenter
        /\ IsRotationAbout(call.rotationMatrix, call.angle, getBoxCenter(call.currentBox))

\* C17, amended: the frame is rotated by the alignment angle itself about
\* the normalised region centre, and the rotation matrix is built with the
\* negative of the alignment angle about the pixel centre of the region;
\* that matrix turns the region's palm landmarks upright.
C17_RotatesByAngleMatrixOfNegative ==
    CropDone =>
        /\ call.angle = computeRotation(
                call.currentBox.palmLandmarks[PALM_LANDMARKS_INDEX_OF_PALM_BASE + 1],
                call.currentBox.palmLandmarks[PALM_LANDMARKS_INDEX_OF_MIDDLE_FINGER_BASE + 1])
        /\ call.rotateAngle = call.angle
        /\ call.palmCenterNormalized = NormalizedRegionCenter
        /\ IsRotationAbout(call.rotationMatrix, -call.angle, getBoxCenter(call.currentBox))
        /\ TurnsHandUpright(call.rotationMatrix, call.currentBox.palmLandmarks)

\* the region's hand is a quarter turn off the vertical: the frame was
\* rotated by 1, and the matrix is that of -1 about the centre (340, 280)
C17_Witness ==
    /\ CropDone
    /\ call.angle = 1
    /\ call.rotateAngle = 1
    /\ getBoxCenter(call.currentBox) = <<340, 280>>
    /\ call.rotationMatrix = << <<0, 1, 60>>, <<-1, 0, 620>> >>

----------------------------------------------------------------------------
\* a step that starts a frame which skips the full detection
TrackedFrameStarts == CallStarts /\ ~DetectorInvoked /\ pc' = "crop" /\ ~call'.useFreshBox

\* C18: in every reachable state, so in every state between two calls,
\* 0 <= runsWithoutHandDetector <= maxContinuousChecks; the counter goes up
\* only by one, at the start of a frame that skips the full detection, and
\* comes down only to 0, when the detector answers with a palm box; and no
\* more than maxContinuousChecks frames in a row run without the detector.
C18_CounterWithinCeiling ==
    /\ [](0 <= runsWithoutHandDetector /\ runsWithoutHandDetector <= maxContinuousChecks)
    /\ [][runsWithoutHandDetector' > runsWithoutHandDetector =>
            /\ runsWithoutHandDetector' = runsWithoutHandDetector + 1
            /\ TrackedFrameStarts]_vars
    /\ [][TrackedFrameStarts =>
            runsWithoutHandDetector' = runsWithoutHandDetector + 1]_vars
    /\ [][runsWithoutHandDetector' < runsWithoutHandDetector =>
            /\ runsWithoutHandDetector' = 0
            /\ DetectorAnswersBox]_vars
    /\ [](sinceForced <= maxContinuousChecks)

\* between two calls the counter stands at the ceiling, after as many
\* tracked frames in a row
C18_Witness ==
    /\ NoCallInFlight
    /\ ~call.useFreshBox
    /\ maxContinuousChecks >= 1
    /\ runsWithoutHandDetector = maxContinuousChecks
    /\ sinceForced = runsWithoutHandDetector

----------------------------------------------------------------------------
\* C19: whenever a call is about to read regionsOfInterest[0] (line 174,
\* for its palmLandmarks and its centre), one region is tracked and it
\* carries the seven palm landmarks; the TypeError of that read is never
\* raised.  This holds for calls that interleave at the await of line 162,
\* and so for sequential calls.
C19_RegionPresentWhenRead ==
    /\ pc # "threw"
    /\ pc = "crop" =>
          /\ Len(regionsOfInterest) = 1
          /\ Len(regionsOfInterest[1].palmLandmarks) = Len(PALM_LANDMARK_IDS)

\* a call resumed by the detector is about to read the region while
\* another call is still suspended, after a call that returned in between
\* had cleared the tracked region
C19_Witness ==
    /\ pc = "crop"
    /\ awaiting # <<>>
    /\ call.useFreshBox
    /\ call.roisBefore = <<>>
    /\ result = NullResult
    /\ Len(regionsOfInterest) = 1

----------------------------------------------------------------------------
\* the box is one the bounding-box detector returned, as it returned it
IsRawPalmBox(box) == box \in DetectorBoxes

\* C20 as stated: on a frame that reuses the tracked region the crop box is
\* never the detector's raw palm box, and the tracking update at the end of
\* a frame that ran the detector always replaces the palm box by the new
\* hand box.
C20_Original ==
    /\ CropDone /\ ~call.useFreshBox => ~IsRawPalmBox(call.box)
    /\ HandReturned /\ call.useFreshBox =>
          regionsOfInterest = << call.nextBoundingBox >>

\* C20, amended: the tracking update at the end of a frame that ran the
\* detector replaces the palm box by the new hand box exactly when the iou
\* it computed is not above 0.8, and keeps the palm box otherwise; after any
\* accepted frame the tracked region is a raw palm box only if it was one
\* before and was kept; and a frame that reuses the tracked region crops
\* that region, be it a hand box or the kept palm box.
C20_PalmBoxKeptWhenIouAbove ==
    /\ [](HandReturned /\ call.useFreshBox =>
            /\ call.roisBefore = << call.boundingBoxPrediction >>
            /\ ~IsRawPalmBox(call.nextBoundingBox)
            /\ regionsOfInterest =
                  IF IouAboveThreshold THEN << call.boundingBoxPrediction >>
                                       ELSE << call.nextBoundingBox >>)
    /\ [][pc = "decide" /\ pc' = "idle" /\ result'.kind = "hand" =>
            (IsRawPalmBox(regionsOfInterest'[1]) <=>
                /\ IsRawPalmBox(regionsOfInterest[1])
                /\ regionsOfInterest' = regionsOfInterest
                /\ FractionGreater(call'.iou, UPDATE_REGION_OF_INTEREST_IOU_THRESHOLD))]_vars
    /\ [](CropDone /\ ~call.useFreshBox => call.box = regionsOfInterest[1])

\* a frame that reuses the tracked region crops the raw palm box
\* (250, 250)-(350, 350): the frame before ran the detector and its hand
\* box had an iou above 0.8 with it
C20_Witness ==
    /\ CropDone
    /\ ~call.useFreshBox
    /\ IsRawPalmBox(call.box)
    /\ call.box.startPoint = <<250, 250>>
    /\ call.box.endPoint = <<350, 350>>
    /\ sinceForced = 1

====
